---- MODULE Spec2Model ----
(***************************************************************************)
(* eth_tools: the event-log fetching commands.                             *)
(*                                                                         *)
(* The model follows commands.fetch_events / commands.bulk_fetch_events    *)
(* down through EventFetcher and ContractFetcher (event_fetcher.py).       *)
(* A run is one command: the main thread builds the FetchTasks, then       *)
(* either drives the one job itself (single-job mode) or submits one       *)
(* future per job to a ThreadPoolExecutor and logs each future's outcome  *)
(* (bulk mode).  Each job opens its sink, builds the ContractFetcher,      *)
(* and iterates ContractFetcher.fetch_events.                             *)
(*                                                                         *)
(* Python resolves self.BLOCK_GRANULARITIES (lines 152, 173) against the   *)
(* class namespace, which line 105 fills under the name                    *)
(* BLOCK_GRANUALARITIES.  The lookup is modelled by GetAttr over           *)
(* ContractFetcherClass, so what the generator does at line 173 is         *)
(* decided by the names as they are written in the source.                 *)
(***************************************************************************)
EXTENDS Integers, Sequences, FiniteSets, TLC

(***************************************************************************)
(* Bounds of the model.                                                    *)
(***************************************************************************)
\* Most jobs in one bulk configuration.
MaxJobs == 3
\* Worker threads of the outer ThreadPoolExecutor() (line 202 leaves the
\* size to the interpreter: min(32, cpu_count + 4)); kept below MaxJobs so
\* that jobs queue behind busy workers.
MaxWorkers == 2
\* Block number the transport reports as the chain head when the command
\* starts.
ChainHead == 25000
\* Most blocks the chain grows by while the command runs.
MaxMined == 1
\* Ticks of the clock in one second (time.time() is read in ticks).
TicksPerSecond == 2
\* Last tick the clock reaches.
MaxTime == 4
\* Longest run of the wrapped function, in ticks.
MaxElapsed == 2
\* Most calls of a cached function in one run.
MaxCalls == 3
CallerWorkers == 2   \* worker threads of ContractCaller's executor
MaxEvents == 3       \* events in the list given to execute_events

(***************************************************************************)
(* Optional values: <<>> is None, <<v>> is the value v.                    *)
(***************************************************************************)
None == <<>>
Some(v) == <<v>>
IsNone(o) == o = <<>>
Get(o) == o[1]

(***************************************************************************)
(* Exceptions.  type is the Python class; the other fields carry what the  *)
(* message names (ValueError of _fetch_batch names address and range).     *)
(***************************************************************************)
NoAddress == ""
Exc(type, address, range) == [type |-> type, address |-> address, range |-> range]
PlainExc(type) == Exc(type, NoAddress, <<>>)
NoExc == PlainExc("None")

(***************************************************************************)
(* ContractFetcher's class namespace (event_fetcher.py line 105) and       *)
(* Python attribute lookup on it.                                          *)
(***************************************************************************)
ContractFetcherClass == [BLOCK_GRANUALARITIES |-> <<10000, 1000, 100, 10, 1>>]

GetAttr(cls, name) ==
    IF name \in DOMAIN cls
    THEN [found |-> TRUE, value |-> cls[name]]
    ELSE [found |-> FALSE, value |-> <<>>]

\* self.BLOCK_GRANULARITIES as lines 152 and 173 spell it.
LookupGranularities == GetAttr(ContractFetcherClass, "BLOCK_GRANULARITIES")

(***************************************************************************)
(* Range partitioning (pure arithmetic of _fetch_batch and fetch_events).  *)
(***************************************************************************)
\* math.ceil(n / d) for d > 0 (n may be <= 0: range() of a value <= 0 is empty).
CeilDiv(n, d) == IF n <= 0 THEN 0 ELSE (n + d - 1) \div d

Min(a, b) == IF a <= b THEN a ELSE b

\* _fetch_batch lines 153-156: start_blocks and end_blocks of one slice at
\* one granularity.
Iterations(start_block, end_block, granularity) ==
    CeilDiv(end_block - start_block + 1, granularity)

StartBlock(start_block, granularity, k) == start_block + (k - 1) * granularity

EndBlock(start_block, end_block, granularity, k) ==
    Min(StartBlock(start_block, granularity, k) + granularity - 1, end_block)

StartBlocks(start_block, end_block, granularity) ==
    [k \in 1..Iterations(start_block, end_block, granularity) |->
        StartBlock(start_block, granularity, k)]

EndBlocks(start_block, end_block, granularity) ==
    [k \in 1..Iterations(start_block, end_block, granularity) |->
        EndBlock(start_block, end_block, granularity, k)]

\* fetch_events lines 172-183: the outer slices of [start_block, end_block],
\* sized at granularity (the first candidate width).
BatchCount(start_block, end_block, granularity) ==
    CeilDiv(end_block - start_block + 1, granularity)

BatchStart(start_block, i, granularity) == start_block + i * granularity

BatchEnd(start_block, end_block, i, granularity) ==
    Min(BatchStart(start_block, i, granularity) + granularity - 1, end_block)

(***************************************************************************)
(* FetchTask (lines 34-95).                                                *)
(***************************************************************************)
\* display_name, lines 62-69: the name when it is truthy, else the address.
DisplayName(task) ==
    IF ~IsNone(task.name) /\ Get(task.name) # "" THEN Get(task.name) ELSE task.address

\* FetchTask.from_dict, lines 72-95.  raw.abi stands for what the ABI path
\* of the raw task resolves to: "missing" (smart_open raises), "unparseable"
\* (json.load raises), or a loaded document that web3 accepts ("ok") or
\* rejects later, when the contract is built ("invalid").
FromDict(raw) ==
    IF raw.abi = "missing" THEN [exc |-> PlainExc("FileNotFoundError"), task |-> <<>>]
    ELSE IF raw.abi = "unparseable" THEN [exc |-> PlainExc("JSONDecodeError"), task |-> <<>>]
    ELSE [exc |-> NoExc,
          task |-> Some([address |-> raw.address, abi |-> raw.abi,
                         start_block |-> raw.start_block,
                         end_block |-> raw.end_block, name |-> raw.name])]

\* fetch_all_events lines 203-206: path.join(output_directory, display_name)
\* + ".jsonl.gz".
FilePath(output_directory, task) == <<output_directory, DisplayName(task), ".jsonl.gz">>

(***************************************************************************)
(* The inputs of a run.                                                    *)
(***************************************************************************)
\* Raw tasks a configuration may list.
RawTaskPool ==
    { [address |-> "0xA", name |-> Some("A"), abi |-> "ok",
       start_block |-> 0, end_block |-> Some(25000)],
      [address |-> "0xB", name |-> None, abi |-> "ok",
       start_block |-> 7, end_block |-> Some(7)],
      [address |-> "0xC", name |-> Some("C"), abi |-> "ok",
       start_block |-> 20000, end_block |-> None],
      [address |-> "0xD", name |-> Some("D"), abi |-> "missing",
       start_block |-> 0, end_block |-> Some(25000)],
      [address |-> "0xE", name |-> Some("E"), abi |-> "unparseable",
       start_block |-> 0, end_block |-> Some(25000)],
      [address |-> "0xF", name |-> Some("F"), abi |-> "invalid",
       start_block |-> 0, end_block |-> Some(25000)],
      [address |-> "0xG", name |-> Some("no/such/dir/G"), abi |-> "ok",
       start_block |-> 0, end_block |-> Some(25000)],
      [address |-> "0xH", name |-> Some("H"), abi |-> "ok",
       start_block |-> 5, end_block |-> Some(3)],
      [address |-> "0xI", name |-> Some("I"), abi |-> "ok",
       start_block |-> 7, end_block |-> Some(9)] }

\* Raw tasks of bulk configurations: those of the pool that differ in what
\* a job does (a job never gets as far as using its block range).
BulkTaskPool == { r \in RawTaskPool : r.start_block = 0 \/ IsNone(r.end_block) }

OutputDirectory == "out"
SingleOutputs == {"events.jsonl.gz", "no/such/dir/events.jsonl.gz"}

\* Paths smart_open cannot open for writing.
Unwritable ==
    { <<OutputDirectory, "no/such/dir/G", ".jsonl.gz">>,
      <<"no/such/dir/events.jsonl.gz">> }

\* Blocks in which the chain holds a log entry of a contract (the same for
\* every address), and the entries: one per block, except two in block 10000.
LogsOf(address) ==
    << [address |-> address, block |-> 0, index |-> 0],
       [address |-> address, block |-> 7, index |-> 0],
       [address |-> address, block |-> 9999, index |-> 0],
       [address |-> address, block |-> 10000, index |-> 0],
       [address |-> address, block |-> 10000, index |-> 1],
       [address |-> address, block |-> 20500, index |-> 0],
       [address |-> address, block |-> 25000, index |-> 0] >>

\* Transport behaviours: limit is the widest request (in blocks) the
\* endpoint accepts (None: any), bad the blocks no request may touch,
\* head_fails whether eth.blockNumber raises.
Transports ==
    { [limit |-> None, bad |-> {}, head_fails |-> FALSE],
      [limit |-> Some(5000), bad |-> {}, head_fails |-> FALSE],
      [limit |-> Some(300), bad |-> {}, head_fails |-> FALSE],
      [limit |-> Some(1), bad |-> {7}, head_fails |-> FALSE],
      [limit |-> None, bad |-> {}, head_fails |-> TRUE] }

\* Transports of bulk runs: those that differ in what a job does (no job
\* gets as far as a log query).
BulkTransports == { t \in Transports : IsNone(t.limit) }

\* Whether the transport raises on a log query for [from_block, to_block]
\* (the filter of lines 132-137).
RequestFails(t, from_block, to_block) ==
    \/ ~IsNone(t.limit) /\ to_block - from_block + 1 > Get(t.limit)
    \/ \E b \in t.bad : from_block <= b /\ b <= to_block

\* The entries the transport returns for a log query that succeeds.
Response(address, from_block, to_block) ==
    SelectSeq(LogsOf(address), LAMBDA e : from_block <= e.block /\ e.block <= to_block)

\* The entries of a contract for which processLog (line 122) raises: their
\* topic is one of the contract's events but their data does not fit it.
Undecodable(address) ==
    IF address = "0xI" THEN { [address |-> address, block |-> 7, index |-> 0] } ELSE {}

\* Every path a run may write to.
AllPaths ==
    { <<o>> : o \in SingleOutputs }
    \cup { <<OutputDirectory, IF IsNone(r.name) THEN r.address ELSE Get(r.name), ".jsonl.gz">> :
            r \in RawTaskPool }

VARIABLES
    mode,       \* "single" (fetch-events) or "bulk" (bulk-fetch-events)
    raw,        \* the raw tasks of the command, in order
    output,     \* args["output"]: a file (single) or a directory (bulk)
    transport,  \* the transport's behaviour in this run
    head,       \* block number the transport reports as the chain head now
    mpc,        \* position of the main thread
    mexc,       \* exception that left the command (NoExc: none)
    tasks,      \* FetchTasks built so far
    submitted,  \* number of futures submitted to the executor
    jpc,        \* position of each job
    jexc,       \* exception each job ended with
    jend,       \* end_block as resolved by fetch_events (None: not yet)
    fs,         \* files of the output: path -> None (no file) or its lines
    rpc,        \* transport requests each job has issued, in order
    log,        \* records the logger has emitted, in order
    handled     \* futures as_completed has yielded

\* ContractFetcher.__init__ / process_log taken on their own (lines 107-123).
VARIABLES
    abi,              \* the events of the contract's ABI
    events_by_topic,  \* self.events_by_topic (None before __init__)
    entry,            \* the log entry last passed to process_log
    processed         \* what that call did: [exc, value]

\* One function wrapped by caching.cache (caching.py).
VARIABLES
    cfg,           \* the arguments of cache(): ttl, thresholds, should_cache
    now,           \* time.time(), in ticks
    memory_cache,  \* key -> None or the (inserted_at, value) entry
    disk,          \* key -> None or the pickle file: its st_mtime and value
    ncalls,        \* calls of the decorated function so far
    last           \* what the last call did

\* The BlockIterator of commands.fetch_blocks (block_iterator.py).
VARIABLES
    block_iterator  \* the arguments, the iterator's fields and what it did

\* ContractCaller.collect_results as commands.call_contract drives it
\* (contract_caller.py), and the TransferEventParser of commands.get_balances
\* (transfer_event_parser.py).
VARIABLES
    contract_caller,        \* the arguments, the executor's tasks, what was yielded
    transfer_event_parser   \* the parser's fields and the events it was given

fetchVars == <<head, mode, raw, output, transport, mpc, mexc, tasks, submitted,
               jpc, jexc, jend, fs, rpc, log, handled>>
decoderVars == <<abi, events_by_topic, entry, processed>>
cacheVars == <<cfg, now, memory_cache, disk, ncalls, last>>
iteratorVars == <<block_iterator>>
callerVars == <<contract_caller>>
parserVars == <<transfer_event_parser>>

\* The variables of the units that are modelled on their own.
unitVars == <<decoderVars, cacheVars, iteratorVars, callerVars, parserVars>>

vars == <<fetchVars, decoderVars, cacheVars, iteratorVars, callerVars, parserVars>>

Jobs == 1..Len(raw)

\* Sequences over S of length 1..n.
SeqsUpTo(S, n) == UNION { [1..k -> S] : k \in 1..n }

JobPath(j) ==
    IF mode = "single" THEN <<output>> ELSE FilePath(output, tasks[j])

\* The units modelled on their own take no part in a command's run.
DecoderIdle ==
    /\ abi = {}
    /\ events_by_topic = None
    /\ entry = None
    /\ processed = None

CacheIdle ==
    /\ cfg = None
    /\ now = 0
    /\ memory_cache = None
    /\ disk = None
    /\ ncalls = 0
    /\ last = None

IteratorIdle == block_iterator = None
CallerIdle == contract_caller = None
ParserIdle == transfer_event_parser = None

Init ==
    /\ DecoderIdle
    /\ CacheIdle
    /\ IteratorIdle
    /\ CallerIdle
    /\ ParserIdle
    /\ head = ChainHead
    /\ mode \in {"single", "bulk"}
    /\ raw \in IF mode = "single" THEN SeqsUpTo(RawTaskPool, 1)
                ELSE SeqsUpTo(BulkTaskPool, MaxJobs)
    /\ output \in IF mode = "single" THEN SingleOutputs ELSE {OutputDirectory}
    /\ transport \in IF mode = "single" THEN Transports ELSE BulkTransports
    /\ mpc = "construct"
    /\ mexc = NoExc
    /\ tasks = <<>>
    /\ submitted = 0
    /\ jpc = [j \in Jobs |-> "new"]
    /\ jexc = [j \in Jobs |-> NoExc]
    /\ jend = [j \in Jobs |-> None]
    /\ fs = [p \in AllPaths |-> None]
    /\ rpc = [j \in Jobs |-> <<>>]
    /\ log = <<>>
    /\ handled = {}

(***************************************************************************)
(* Main thread.                                                            *)
(***************************************************************************)
\* commands.fetch_events line 201 / commands.bulk_fetch_events line 228:
\* FetchTask.from_dict on the next raw task.  An exception leaves the
\* command at once (nothing around the call catches it).  After the last
\* task, single-job mode calls fetch_and_persist_events on the main thread
\* (line 202) and bulk mode enters fetch_all_events (line 229).
Construct ==
    /\ mpc = "construct"
    /\ LET k == Len(tasks) + 1
           r == FromDict(raw[k])
       IN IF r.exc # NoExc
          THEN /\ mpc' = "raised"
               /\ mexc' = r.exc
               /\ UNCHANGED <<tasks, jpc>>
          ELSE /\ tasks' = Append(tasks, Get(r.task))
               /\ mexc' = mexc
               /\ IF k < Len(raw)
                  THEN UNCHANGED <<mpc, jpc>>
                  ELSE IF mode = "single"
                       THEN mpc' = "run" /\ jpc' = [jpc EXCEPT ![1] = "open"]
                       ELSE mpc' = "submit" /\ UNCHANGED jpc
    /\ UNCHANGED <<unitVars, head, mode, raw, output, transport, submitted, jexc, jend, fs,
                   rpc, log, handled>>

\* fetch_all_events lines 207-210: executor.submit for the next task.
Submit ==
    /\ mpc = "submit"
    /\ submitted' = submitted + 1
    /\ jpc' = [jpc EXCEPT ![submitted + 1] = "queued"]
    /\ mpc' = IF submitted + 1 = Len(tasks) THEN "collect" ELSE "submit"
    /\ UNCHANGED <<unitVars, head, mode, raw, output, transport, mexc, tasks, jexc, jend, fs,
                   rpc, log, handled>>

\* The chain grows by one block while the command is running (the
\* transport's eth.blockNumber, line 170, reports the head of the moment).
AdvanceHead ==
    /\ mpc \notin {"returned", "raised"}
    /\ head < ChainHead + MaxMined
    /\ head' = head + 1
    /\ UNCHANGED <<unitVars, mode, raw, output, transport, mpc, mexc, tasks,
                   submitted, jpc, jexc, jend, fs, rpc, log, handled>>

Ended(j) == jpc[j] \in {"raised", "done"}
Running(j) == jpc[j] \notin {"new", "queued", "raised", "done"}

\* A worker of the executor takes the oldest queued work item
\* (ThreadPoolExecutor's queue is FIFO, at most max_workers threads).
Start(j) ==
    /\ mode = "bulk"
    /\ jpc[j] = "queued"
    /\ \A i \in 1..(j - 1) : jpc[i] # "queued"
    /\ Cardinality({i \in Jobs : Running(i)}) < MaxWorkers
    /\ jpc' = [jpc EXCEPT ![j] = "open"]
    /\ UNCHANGED <<unitVars, head, mode, raw, output, transport, mpc, mexc, tasks, submitted,
                   jexc, jend, fs, rpc, log, handled>>

(***************************************************************************)
(* One job: EventFetcher.fetch_and_persist_events (lines 196-199).         *)
(***************************************************************************)
\* The job ends with exception e: the with block of line 197 closes the
\* file, whose lines stay as written.
Raise(j, e) ==
    /\ jpc' = [jpc EXCEPT ![j] = "raised"]
    /\ jexc' = [jexc EXCEPT ![j] = e]

\* Line 197: smart_open(output_file, "w") creates or truncates the file.
OpenSink(j) ==
    /\ jpc[j] = "open"
    /\ IF JobPath(j) \in Unwritable
       THEN Raise(j, PlainExc("OSError")) /\ UNCHANGED fs
       ELSE /\ fs' = [fs EXCEPT ![JobPath(j)] = Some(<<>>)]
            /\ jpc' = [jpc EXCEPT ![j] = "build"]
            /\ UNCHANGED jexc
    /\ UNCHANGED <<unitVars, head, mode, raw, output, transport, mpc, mexc, tasks, submitted,
                   jend, rpc, log, handled>>

\* Line 198 calls EventFetcher.fetch_events (lines 191-194): web3 builds
\* the contract from the task's ABI and ContractFetcher.__init__ (lines
\* 107-114) indexes its events; an ABI web3 rejects raises here.  The call
\* of the generator function (line 194) runs none of its body.
BuildFetcher(j) ==
    /\ jpc[j] = "build"
    /\ IF tasks[j].abi = "invalid"
       THEN Raise(j, PlainExc("ValueError"))
       ELSE jpc' = [jpc EXCEPT ![j] = "iter"] /\ UNCHANGED jexc
    /\ UNCHANGED <<unitVars, head, mode, raw, output, transport, mpc, mexc, tasks, submitted,
                   jend, fs, rpc, log, handled>>

\* One eth.blockNumber request and what the transport answered (None: it
\* raised).
HeadQuery(answer) == [op |-> "blockNumber", result |-> answer]

\* First next() on the generator, lines 169-170: an omitted end_block is
\* read from the transport (one eth.blockNumber request), which answers
\* with the chain head of that moment.
ResolveEndBlock(j) ==
    /\ jpc[j] = "iter"
    /\ IF IsNone(tasks[j].end_block)
       THEN /\ rpc' = [rpc EXCEPT ![j] =
                        Append(@, HeadQuery(IF transport.head_fails THEN None
                                            ELSE Some(head)))]
            /\ IF transport.head_fails
               THEN Raise(j, PlainExc("TransportError")) /\ UNCHANGED jend
               ELSE /\ jend' = [jend EXCEPT ![j] = Some(head)]
                    /\ jpc' = [jpc EXCEPT ![j] = "granularity"]
                    /\ UNCHANGED jexc
       ELSE /\ jend' = [jend EXCEPT ![j] = tasks[j].end_block]
            /\ jpc' = [jpc EXCEPT ![j] = "granularity"]
            /\ UNCHANGED <<rpc, jexc>>
    /\ UNCHANGED <<unitVars, head, mode, raw, output, transport, mpc, mexc, tasks, submitted,
                   fs, log, handled>>

\* LookupGranularity with line 172 reading eth.blockNumber again for an
\* omitted end_block instead of using the value line 170 stored.
LookupGranularityRequery(j) ==
    /\ jpc[j] = "granularity"
    /\ IF IsNone(tasks[j].end_block)
       THEN /\ rpc' = [rpc EXCEPT ![j] = Append(@, HeadQuery(Some(head)))]
            /\ jend' = [jend EXCEPT ![j] = Some(head)]
       ELSE UNCHANGED <<rpc, jend>>
    /\ IF ~LookupGranularities.found
       THEN Raise(j, PlainExc("AttributeError"))
       ELSE jpc' = [jpc EXCEPT ![j] = "slice"] /\ UNCHANGED jexc
    /\ UNCHANGED <<unitVars, head, mode, raw, output, transport, mpc, mexc,
                   tasks, submitted, fs, log, handled>>

\* Lines 172-173: block_count, then self.BLOCK_GRANULARITIES[0].  The
\* class defines no attribute of that name, so the lookup raises
\* AttributeError and the generator ends before its loop (lines 175-184):
\* no slice is formed, _fetch_batch is never called and nothing is
\* yielded.
LookupGranularity(j) ==
    /\ jpc[j] = "granularity"
    /\ IF ~LookupGranularities.found
       THEN Raise(j, PlainExc("AttributeError"))
       ELSE jpc' = [jpc EXCEPT ![j] = "slice"] /\ UNCHANGED jexc
    /\ UNCHANGED <<unitVars, head, mode, raw, output, transport, mpc, mexc, tasks, submitted,
                   jend, fs, rpc, log, handled>>

(***************************************************************************)
(* Outcomes.                                                               *)
(***************************************************************************)
\* future.exception() of job j's future, line 213.
FutureException(j) == jexc[j]

\* Lines 214-219: the record logged for a finished future.
OutcomeRecord(j) ==
    LET ex == FutureException(j)
    IN IF ex # NoExc
       THEN [level |-> "error", name |-> tasks[j].name,
             address |-> tasks[j].address, ex |-> ex]
       ELSE [level |-> "info", name |-> tasks[j].name,
             address |-> tasks[j].address, ex |-> NoExc]

\* Collect with future.result() in place of future.exception(): a failed
\* job's exception is raised again in the main thread and leaves
\* fetch_all_events.
CollectByResult(j) ==
    /\ mpc = "collect"
    /\ j \notin handled
    /\ Ended(j)
    /\ handled' = handled \cup {j}
    /\ IF jexc[j] # NoExc
       THEN mpc' = "raised" /\ mexc' = jexc[j] /\ UNCHANGED log
       ELSE log' = Append(log, OutcomeRecord(j)) /\ UNCHANGED <<mpc, mexc>>
    /\ UNCHANGED <<unitVars, head, mode, raw, output, transport, tasks, submitted,
                   jpc, jexc, jend, fs, rpc>>

\* Lines 211-219: as_completed yields a finished future that it has not
\* yielded yet; its outcome is logged and the loop goes on.
Collect(j) ==
    /\ mpc = "collect"
    /\ j \notin handled
    /\ Ended(j)
    /\ log' = Append(log, OutcomeRecord(j))
    /\ handled' = handled \cup {j}
    /\ UNCHANGED <<unitVars, head, mode, raw, output, transport, mpc, mexc, tasks, submitted,
                   jpc, jexc, jend, fs, rpc>>

\* Return with the loop of line 211 left at the first failed future.
ReturnOnFirstError ==
    /\ mpc = "collect"
    /\ handled = Jobs \/ \E j \in handled : jexc[j] # NoExc
    /\ mpc' = "returned"
    /\ UNCHANGED <<unitVars, head, mode, raw, output, transport, mexc, tasks, submitted,
                   jpc, jexc, jend, fs, rpc, log, handled>>

\* as_completed is exhausted; the with block of line 202 shuts the executor
\* down and fetch_all_events returns.
Return ==
    /\ mpc = "collect"
    /\ handled = Jobs
    /\ mpc' = "returned"
    /\ UNCHANGED <<unitVars, head, mode, raw, output, transport, mexc, tasks, submitted,
                   jpc, jexc, jend, fs, rpc, log, handled>>

\* Propagate with the job's exception caught around line 202.
PropagateSwallowed ==
    /\ mpc = "run"
    /\ Ended(1)
    /\ mpc' = "returned"
    /\ mexc' = mexc
    /\ UNCHANGED <<unitVars, head, mode, raw, output, transport, tasks, submitted,
                   jpc, jexc, jend, fs, rpc, log, handled>>

\* Single-job mode: fetch_and_persist_events ran on the main thread, so
\* its exception leaves commands.fetch_events (line 202).
Propagate ==
    /\ mpc = "run"
    /\ Ended(1)
    /\ IF jexc[1] # NoExc
       THEN mpc' = "raised" /\ mexc' = jexc[1]
       ELSE mpc' = "returned" /\ mexc' = mexc
    /\ UNCHANGED <<unitVars, head, mode, raw, output, transport, tasks, submitted,
                   jpc, jexc, jend, fs, rpc, log, handled>>

Next ==
    \/ AdvanceHead
    \/ Construct
    \/ Submit
    \/ Propagate
    \/ Return
    \/ \E j \in Jobs :
          \/ Start(j)
          \/ OpenSink(j)
          \/ BuildFetcher(j)
          \/ ResolveEndBlock(j)
          \/ LookupGranularity(j)
          \/ Collect(j)

Spec == Init /\ [][Next]_vars

(***************************************************************************)
(* ContractFetcher.__init__ and process_log on their own (lines 107-123):  *)
(* a fetcher is built for a contract and process_log is applied to log     *)
(* entries.                                                                *)
(***************************************************************************)
\* No command is running.
FetchIdle ==
    /\ head = ChainHead
    /\ mode = "none"
    /\ raw = <<>>
    /\ output = ""
    /\ transport = None
    /\ mpc = "idle"
    /\ mexc = NoExc
    /\ tasks = <<>>
    /\ submitted = 0
    /\ jpc = <<>>
    /\ jexc = <<>>
    /\ jend = <<>>
    /\ fs = [p \in AllPaths |-> None]
    /\ rpc = <<>>
    /\ log = <<>>
    /\ handled = {}

\* Events an ABI may declare: sighash stands for the 32 bytes of the hash
\* of the event's signature, indexed for the number of indexed inputs.
EventPool ==
    { [name |-> "Transfer", anonymous |-> FALSE, sighash |-> 1,
       inputs |-> <<"from", "to", "value">>, indexed |-> 2],
      [name |-> "Approval", anonymous |-> FALSE, sighash |-> 2,
       inputs |-> <<"owner", "spender", "value">>, indexed |-> 2],
      [name |-> "Debug", anonymous |-> TRUE, sighash |-> 3,
       inputs |-> <<"note">>, indexed |-> 0] }

\* HexBytes.hex(), line 121: the bytes as a "0x..." string.
Hex(bytes) == <<"0x", bytes>>

\* event.build_filter().topics[0], line 111: the hex string of the hash of
\* the event's signature.
FilterTopic(event) == Hex(event.sighash)

\* Log entries of the transport.  topics is None when the entry has no
\* "topics" key (event.get, line 120); an entry emitted by an event of the
\* pool carries that event's indexed inputs as its further topics.
LogEntries ==
    { [topics |-> t, data |-> d] :
        t \in { None, Some(<<>>), Some(<<1, 11, 12>>), Some(<<2, 11, 12>>),
                Some(<<3>>), Some(<<4>>), Some(<<4, 1>>) },
        d \in { "d1", "d2", "d3" } }

\* ContractEvent.processLog of web3 (called at line 122): the entry with
\* the event's name and its arguments by name, the indexed ones read from
\* the topics and the others from the data.
ProcessLogWeb3(event, e) ==
    [event |-> event.name,
     args |-> [i \in 1..Len(event.inputs) |->
                  <<event.inputs[i],
                    IF i <= event.indexed THEN Get(e.topics)[i + 1] ELSE e.data>>],
     log |-> e]

\* Lines 109-114: the table of the non-anonymous events by topic.
EventsByTopic(contract_abi) ==
    [t \in { FilterTopic(ev) : ev \in { x \in contract_abi : ~x.anonymous } } |->
        CHOOSE ev \in contract_abi : ~ev.anonymous /\ FilterTopic(ev) = t]

\* Python truth of event.get("topics"), line 121: neither None nor empty.
Truthy(topics) == ~IsNone(topics) /\ Get(topics) # <<>>

\* process_log with line 121 reading topics[0] without testing topics first.
ProcessLogUnguarded(table, e) ==
    IF IsNone(e.topics) THEN [exc |-> PlainExc("TypeError"), value |-> None]
    ELSE IF Get(e.topics) = <<>> THEN [exc |-> PlainExc("IndexError"), value |-> None]
    ELSE IF Hex(Get(e.topics)[1]) \in DOMAIN table
    THEN [exc |-> NoExc, value |-> Some(ProcessLogWeb3(table[Hex(Get(e.topics)[1])], e))]
    ELSE [exc |-> NoExc, value |-> Some(e)]

\* process_log, lines 116-123.
ProcessLogOf(table, e) ==
    IF Truthy(e.topics) /\ Hex(Get(e.topics)[1]) \in DOMAIN table
    THEN [exc |-> NoExc, value |-> Some(ProcessLogWeb3(table[Hex(Get(e.topics)[1])], e))]
    ELSE [exc |-> NoExc, value |-> Some(e)]

DecoderInit ==
    /\ FetchIdle
    /\ CacheIdle
    /\ IteratorIdle
    /\ CallerIdle
    /\ ParserIdle
    /\ abi \in SUBSET EventPool
    /\ events_by_topic = None
    /\ entry = None
    /\ processed = None

\* ContractFetcher(contract), lines 107-114.
BuildTable ==
    /\ IsNone(events_by_topic)
    /\ events_by_topic' = Some(EventsByTopic(abi))
    /\ UNCHANGED <<fetchVars, cacheVars, iteratorVars, callerVars, parserVars, abi, entry, processed>>

\* fetcher.process_log(e) for some entry e.
ProcessLog ==
    /\ ~IsNone(events_by_topic)
    /\ \E e \in LogEntries :
          /\ entry' = Some(e)
          /\ processed' = Some(ProcessLogOf(Get(events_by_topic), e))
    /\ UNCHANGED <<fetchVars, cacheVars, iteratorVars, callerVars, parserVars, abi, events_by_topic>>

DecoderNext == BuildTable \/ ProcessLog

DecoderSpec == DecoderInit /\ [][DecoderNext]_vars

(***************************************************************************)
(* caching.cache: one function wrapped by the decorator, called with       *)
(* arguments that hash to one of a few keys, while the clock runs.         *)
(***************************************************************************)
\* The value None of Python, as a result of the wrapped function.
PyNone == "None"
Results == {PyNone, "abi"}

\* compute_key, lines 38-63: the md5 of the pickled name and arguments; two
\* calls have the same key exactly when these are the same.
Keys == {"k1", "k2"}

\* Arguments of cache(), lines 14-21: ttl in seconds, the two thresholds in
\* ticks, and whether a should_cache function is given.  The second pair
\* of thresholds is that of abi_fetcher.py line 15 (min_disk_time=0 below
\* the default min_memory_time).
CacheConfigs ==
    { [ttl |-> t, min_memory_time |-> th[1], min_disk_time |-> th[2],
       should_cache |-> sc] :
        t \in {-1, 0, 1}, th \in {<<1, 2>>, <<1, 0>>}, sc \in BOOLEAN }

\* int(time.time() - t) for a difference of d ticks, d >= 0.
IntSeconds(d) == d \div TicksPerSecond

\* Lines 72 and 99: 0 <= ttl <= int(time.time() - t).
Expired(ttl, t) == 0 <= ttl /\ ttl <= IntSeconds(now - t)

\* get_from_memory_cache, lines 87-103: the pair it returns and the
\* memory cache it leaves.
GetFromMemoryCache(key) ==
    LET e == memory_cache[key]
    IN IF IsNone(e)
       THEN [value |-> PyNone, cached |-> FALSE, memory |-> memory_cache]
       ELSE IF Expired(cfg.ttl, Get(e).inserted_at)
       THEN [value |-> PyNone, cached |-> FALSE,
             memory |-> [memory_cache EXCEPT ![key] = None]]
       ELSE [value |-> Get(e).value, cached |-> TRUE, memory |-> memory_cache]

\* should_use_file_cache, lines 65-78: what it returns and the files it
\* leaves.
ShouldUseFileCache(key) ==
    LET f == disk[key]
    IN IF IsNone(f)
       THEN [use |-> FALSE, files |-> disk]
       ELSE IF Expired(cfg.ttl, Get(f).st_mtime)
       THEN [use |-> FALSE, files |-> [disk EXCEPT ![key] = None]]
       ELSE [use |-> TRUE, files |-> disk]

\* StoreTier with line 138 testing only min_memory_time <= ellapse.
StoreTierNoUpperBound(ellapse) ==
    IF cfg.min_memory_time <= ellapse THEN "memory"
    ELSE IF ellapse >= cfg.min_disk_time THEN "disk"
    ELSE "none"

\* Lines 138-144: where a result that took ellapse ticks is stored.
StoreTier(ellapse) ==
    IF cfg.min_memory_time <= ellapse /\ ellapse < cfg.min_disk_time THEN "memory"
    ELSE IF ellapse >= cfg.min_disk_time THEN "disk"
    ELSE "none"

CallRecord(key, source, value, ellapse, accepted, stored) ==
    Some([key |-> key, source |-> source, value |-> value, ellapse |-> ellapse,
          accepted |-> accepted, stored |-> stored])

CacheInit ==
    /\ FetchIdle
    /\ DecoderIdle
    /\ IteratorIdle
    /\ CallerIdle
    /\ ParserIdle
    /\ cfg \in CacheConfigs
    /\ now = 0
    /\ memory_cache = [k \in Keys |-> None]
    /\ disk = [k \in Keys |-> None]
    /\ ncalls = 0
    /\ last = None

\* The clock advances by one tick.
Tick ==
    /\ now < MaxTime
    /\ now' = now + 1
    /\ UNCHANGED <<fetchVars, decoderVars, iteratorVars, callerVars, parserVars, cfg, memory_cache, disk, ncalls, last>>

\* decorated, lines 107-145: one call whose arguments hash to key.  When
\* the wrapped function is called it takes ellapse ticks and returns
\* result; accept is what should_cache (when given) says of the result.
Call(key, result, ellapse, accept) ==
    /\ ncalls < MaxCalls
    /\ ncalls' = ncalls + 1
    /\ LET m == GetFromMemoryCache(key)
           f == ShouldUseFileCache(key)
           accepted == ~cfg.should_cache \/ accept
           tier == IF accepted THEN StoreTier(ellapse) ELSE "none"
       IN IF m.value # PyNone /\ m.cached
          THEN /\ last' = CallRecord(key, "memory", m.value, 0, TRUE, "none")
               /\ memory_cache' = m.memory
               /\ UNCHANGED <<now, disk>>
          ELSE IF f.use
          THEN /\ last' = CallRecord(key, "disk", Get(disk[key]).value, 0, TRUE, "none")
               /\ memory_cache' = m.memory
               /\ disk' = f.files
               /\ UNCHANGED now
          ELSE /\ now + ellapse <= MaxTime
               /\ now' = now + ellapse
               /\ last' = CallRecord(key, "fn", result, ellapse, accepted, tier)
               /\ memory_cache' =
                     IF tier = "memory"
                     THEN [m.memory EXCEPT ![key] =
                              Some([inserted_at |-> now + ellapse, value |-> result])]
                     ELSE m.memory
               /\ disk' =
                     IF tier = "disk"
                     THEN [f.files EXCEPT ![key] =
                              Some([st_mtime |-> now + ellapse, value |-> result])]
                     ELSE f.files
    /\ UNCHANGED <<fetchVars, decoderVars, iteratorVars, callerVars, parserVars, cfg>>

CacheNext ==
    \/ Tick
    \/ \E key \in Keys, result \in Results, ellapse \in 0..MaxElapsed, accept \in BOOLEAN :
          Call(key, result, ellapse, accept)

CacheSpec == CacheInit /\ [][CacheNext]_vars

(***************************************************************************)
(* BlockIterator as commands.fetch_blocks drives it (block_iterator.py     *)
(* lines 34-84, commands.py lines 75-94): the iterator is built, the for   *)
(* loop takes its iterator and calls next() until StopIteration; an        *)
(* exception of the transport leaves the loop and the command.             *)
(***************************************************************************)
\* Arguments of BlockIterator(): a range by its ends, or a collection of
\* block numbers (with the ends, which the assertion of line 50 rejects).
IteratorArgs ==
    { [start_block |-> a[1], end_block |-> a[2], blocks |-> a[3], log_interval |-> i] :
        a \in { <<None, Some(2), None>>,
                <<Some(3), Some(5), None>>,
                <<Some(4), Some(4), None>>,
                <<Some(5), Some(3), None>>,
                <<Some(ChainHead - 1), None, None>>,
                <<None, None, Some(<<7, 3, 3>>)>>,
                <<Some(0), None, Some(<<1>>)>> },
        i \in { None, Some(0), Some(2) } }

\* BlockRange with line 59 reading range(start_block, end_block).
BlockRangeExclusive(start_block, end_block) ==
    [k \in 1..(IF end_block - start_block > 0 THEN end_block - start_block ELSE 0)
        |-> start_block + k - 1]

\* range(start_block, end_block + 1), line 59, as the sequence it runs over.
BlockRange(start_block, end_block) ==
    [k \in 1..(IF end_block + 1 - start_block > 0 THEN end_block + 1 - start_block ELSE 0)
        |-> start_block + k - 1]

\* web3.eth.getBlock(n) when it succeeds: the data of block n.
BlockData(n) == [number |-> n]

GetBlockCall(n) == [op |-> "getBlock", number |-> n]

IteratorInit ==
    /\ FetchIdle
    /\ DecoderIdle
    /\ CacheIdle
    /\ CallerIdle
    /\ ParserIdle
    /\ \E a \in IteratorArgs :
          block_iterator =
              [args |-> a, pc |-> "new", exc |-> NoExc, blocks |-> <<>>,
               blocks_count |-> 0, position |-> 0, processed_count |-> 0,
               calls |-> <<>>, yielded |-> <<>>, log |-> <<>>]

\* BlockIterator.__init__, lines 40-65.  answers: whether eth.blockNumber
\* (line 58) returns.
NewBlockIterator(answers) ==
    /\ block_iterator.pc = "new"
    /\ LET a == block_iterator.args
           start_block == IF IsNone(a.start_block) THEN 0 ELSE Get(a.start_block)
       IN IF ~IsNone(a.blocks)
          THEN IF IsNone(a.start_block) /\ IsNone(a.end_block)
               THEN block_iterator' =
                       [block_iterator EXCEPT !.pc = "built",
                                              !.blocks = Get(a.blocks),
                                              !.blocks_count = Len(Get(a.blocks))]
               ELSE block_iterator' =
                       [block_iterator EXCEPT !.pc = "raised",
                                              !.exc = PlainExc("AssertionError")]
          ELSE IF ~IsNone(a.end_block)
               THEN block_iterator' =
                       [block_iterator EXCEPT
                           !.pc = "built",
                           !.blocks = BlockRange(start_block, Get(a.end_block)),
                           !.blocks_count = Len(BlockRange(start_block, Get(a.end_block)))]
               ELSE IF answers
               THEN block_iterator' =
                       [block_iterator EXCEPT
                           !.pc = "built",
                           !.calls = Append(@, HeadQuery(Some(head))),
                           !.blocks = BlockRange(start_block, head),
                           !.blocks_count = Len(BlockRange(start_block, head))]
               ELSE block_iterator' =
                       [block_iterator EXCEPT
                           !.pc = "raised",
                           !.calls = Append(@, HeadQuery(None)),
                           !.exc = PlainExc("TransportError")]
    /\ UNCHANGED <<fetchVars, decoderVars, cacheVars, callerVars, parserVars>>

\* __iter__, lines 70-72 (the for loop of commands.py line 91 calls it once).
Iter ==
    /\ block_iterator.pc = "built"
    /\ block_iterator' =
          [block_iterator EXCEPT
              !.pc = "iterating",
              !.log = Append(@, <<"processing", block_iterator.blocks_count>>)]
    /\ UNCHANGED <<fetchVars, decoderVars, cacheVars, callerVars, parserVars>>

\* __next__, lines 78-84.  answers: whether eth.getBlock (line 83) returns.
NextBlock(answers) ==
    /\ block_iterator.pc = "iterating"
    /\ LET it == block_iterator
           i == it.args.log_interval
       IN IF it.position = Len(it.blocks)
          THEN block_iterator' = [it EXCEPT !.pc = "stopped"]
          ELSE LET block_number == it.blocks[it.position + 1]
                   count == it.processed_count + 1
                   logged == IF ~IsNone(i) /\ Get(i) # 0 /\ count % Get(i) = 0
                             THEN Append(it.log, <<count, it.blocks_count>>)
                             ELSE it.log
               IN IF answers
                  THEN block_iterator' =
                          [it EXCEPT !.position = @ + 1,
                                     !.processed_count = count,
                                     !.log = logged,
                                     !.calls = Append(@, GetBlockCall(block_number)),
                                     !.yielded = Append(@, BlockData(block_number))]
                  ELSE block_iterator' =
                          [it EXCEPT !.position = @ + 1,
                                     !.processed_count = count,
                                     !.log = logged,
                                     !.calls = Append(@, GetBlockCall(block_number)),
                                     !.pc = "raised",
                                     !.exc = PlainExc("TransportError")]
    /\ UNCHANGED <<fetchVars, decoderVars, cacheVars, callerVars, parserVars>>

IteratorNext ==
    \/ \E answers \in BOOLEAN : NewBlockIterator(answers)
    \/ Iter
    \/ \E answers \in BOOLEAN : NextBlock(answers)

IteratorSpec == IteratorInit /\ [][IteratorNext]_vars

(***************************************************************************)
(* ContractCaller.collect_results as commands.call_contract drives it      *)
(* (contract_caller.py lines 27-68, commands.py lines 180-192): the for     *)
(* loop of the command takes the generator's results one by one; the       *)
(* executor's worker threads run the calls beside it.                      *)
(***************************************************************************)
\* tries=3 of the retry decorator, line 65.
Tries == 3

\* Arguments of collect_results.  contract_args: None, or a list with an
\* argument of a type ARG_TYPES (lines 17-20) does not know.
CallerArgs ==
    { [start_block |-> a[1], end_block |-> a[2], block_interval |-> a[3],
       contract_args |-> c] :
        a \in { <<Some(3), Some(7), 2>>,
                <<Some(3), Some(6), 2>>,
                <<None, Some(4), 1>>,
                <<Some(ChainHead - 1), None, 1>>,
                <<None, None, 1000>>,
                <<Some(5), Some(3), 1>> },
        c \in { None, Some(<<"1:bogus">>) } }

\* range(start_block, end_block + 1, block_interval), line 51, for a
\* positive block_interval.
CallBlocks(start_block, end_block, block_interval) ==
    [k \in 1..CeilDiv(end_block + 1 - start_block, block_interval)
        |-> start_block + (k - 1) * block_interval]

\* What the contract function returns at a block when it returns a value.
ResultAt(block) == <<"result", block>>

\* transform_arg, lines 70-80, raises for an argument "value:type" whose
\* type is not in ARG_TYPES.
TransformArgRaises(raw_arg) == raw_arg = "1:bogus"

QueuedTask == [state |-> "queued", attempts |-> 0, result |-> None, failed |-> FALSE]

CallerInit ==
    /\ FetchIdle
    /\ DecoderIdle
    /\ CacheIdle
    /\ IteratorIdle
    /\ ParserIdle
    /\ \E a \in CallerArgs :
          contract_caller =
              [args |-> a, pc |-> "new", exc |-> NoExc, blocks |-> <<>>,
               task |-> <<>>, consumed |-> <<>>, yielded |-> <<>>,
               finished |-> <<>>, calls |-> <<>>, log |-> <<>>]

\* First next() on the generator, lines 35-53: the defaults are resolved,
\* the arguments transformed, the executor built and executor.map submits
\* one task per block.  answers: whether eth.blockNumber (line 37) returns.
CollectResults(answers) ==
    /\ contract_caller.pc = "new"
    /\ LET c == contract_caller
           a == c.args
           asked == IsNone(a.end_block)
           end_block == IF asked THEN head ELSE Get(a.end_block)
           start_block == IF IsNone(a.start_block) THEN end_block ELSE Get(a.start_block)
           calls == IF asked
                    THEN <<HeadQuery(IF answers THEN Some(head) ELSE None)>>
                    ELSE <<>>
           blocks == CallBlocks(start_block, end_block, a.block_interval)
       IN /\ ~asked => answers
          /\ IF asked /\ ~answers
             THEN contract_caller' =
                     [c EXCEPT !.pc = "raised", !.calls = calls,
                               !.exc = PlainExc("TransportError")]
             ELSE IF /\ ~IsNone(a.contract_args)
                     /\ \E i \in DOMAIN Get(a.contract_args) :
                           TransformArgRaises(Get(a.contract_args)[i])
             THEN contract_caller' =
                     [c EXCEPT !.pc = "raised", !.calls = calls,
                               !.exc = PlainExc("ValueError")]
             ELSE contract_caller' =
                     [c EXCEPT !.pc = "collecting", !.calls = calls,
                               !.blocks = blocks,
                               !.task = [k \in DOMAIN blocks |-> QueuedTask]]
    /\ UNCHANGED <<fetchVars, decoderVars, cacheVars, iteratorVars, parserVars>>

\* A worker thread of the executor (line 50) takes the oldest queued task.
TakeTask(k) ==
    /\ contract_caller.pc = "collecting"
    /\ k \in DOMAIN contract_caller.task
    /\ contract_caller.task[k].state = "queued"
    /\ \A h \in 1..(k - 1) : contract_caller.task[h].state # "queued"
    /\ Cardinality({ h \in DOMAIN contract_caller.task :
                        contract_caller.task[h].state = "running" }) < CallerWorkers
    /\ contract_caller' = [contract_caller EXCEPT !.task[k].state = "running"]
    /\ UNCHANGED <<fetchVars, decoderVars, cacheVars, iteratorVars, parserVars>>

\* One attempt of call_func for task k (lines 65-68) within run_task
\* (lines 44-48).  outcome: the call returns a value, returns None, or raises;
\* the retry decorator repeats a call that raised until it was tried Tries
\* times, then lets the exception out, which run_task logs and turns into
\* the result None.
Attempt(k, outcome) ==
    /\ contract_caller.pc = "collecting"
    /\ k \in DOMAIN contract_caller.task
    /\ contract_caller.task[k].state = "running"
    /\ LET c == contract_caller
           t == c.task[k]
           n == t.attempts + 1
       IN IF outcome = "value"
          THEN contract_caller' =
                  [c EXCEPT !.task[k] = [state |-> "done", attempts |-> n,
                                         result |-> Some(ResultAt(c.blocks[k])),
                                         failed |-> FALSE],
                            !.finished = Append(@, k)]
          ELSE IF outcome = "none"
          THEN contract_caller' =
                  [c EXCEPT !.task[k] = [state |-> "done", attempts |-> n,
                                         result |-> None, failed |-> FALSE],
                            !.finished = Append(@, k)]
          ELSE IF n < Tries
          THEN contract_caller' = [c EXCEPT !.task[k].attempts = n]
          ELSE contract_caller' =
                  [c EXCEPT !.task[k] = [state |-> "done", attempts |-> n,
                                         result |-> None, failed |-> TRUE],
                            !.finished = Append(@, k),
                            !.log = Append(@, <<"failed to fetch block", c.blocks[k]>>)]
    /\ UNCHANGED <<fetchVars, decoderVars, cacheVars, iteratorVars, parserVars>>

\* DeliverableNext with the results taken as the tasks complete.
DeliverableAsCompleted(c) ==
    { k \in DOMAIN c.task :
        /\ c.task[k].state = "done"
        /\ \A i \in DOMAIN c.consumed : c.consumed[i] # k }

\* The task whose result the iterator of executor.map (line 53) hands out
\* next: the next one in submission order, once it is done.
DeliverableNext(c) ==
    { k \in DOMAIN c.task :
        /\ k = Len(c.consumed) + 1
        /\ c.task[k].state = "done" }

\* One round of the loop of lines 54-63: the next (block, result) of
\* zip(blocks, results) is taken and yielded unless the result is None.
TakeResult ==
    /\ contract_caller.pc = "collecting"
    /\ \E k \in DeliverableNext(contract_caller) :
          LET c == contract_caller
          IN contract_caller' =
                [c EXCEPT !.consumed = Append(@, k),
                          !.yielded = IF IsNone(c.task[k].result) THEN @
                                      ELSE Append(@, <<c.blocks[k], Get(c.task[k].result)>>)]
    /\ UNCHANGED <<fetchVars, decoderVars, cacheVars, iteratorVars, parserVars>>

\* zip is exhausted: the with block of line 50 is left and the generator
\* ends.
Exhausted ==
    /\ contract_caller.pc = "collecting"
    /\ Len(contract_caller.consumed) = Len(contract_caller.blocks)
    /\ contract_caller' = [contract_caller EXCEPT !.pc = "exhausted"]
    /\ UNCHANGED <<fetchVars, decoderVars, cacheVars, iteratorVars, parserVars>>

CallerNext ==
    \/ \E answers \in BOOLEAN : CollectResults(answers)
    \/ \E k \in DOMAIN contract_caller.task : TakeTask(k)
    \/ \E k \in DOMAIN contract_caller.task, outcome \in {"value", "none", "error"} :
          Attempt(k, outcome)
    \/ TakeResult
    \/ Exhausted

CallerSpec == CallerInit /\ [][CallerNext]_vars

(***************************************************************************)
(* TransferEventParser as commands.get_balances drives it                  *)
(* (transfer_event_parser.py lines 17-96, commands.py lines 99-108): the   *)
(* parser is built from the tracked addresses and execute_events walks     *)
(* the list of events, one round of its loop per step.                     *)
(***************************************************************************)
\* The addresses file: name -> address.  "x" is an address nobody tracks.
TrackedAddresses == [alice |-> "a", bob |-> "b"]

\* The amount the chain moved in a Transfer of a block.
AmountIn(block) == IF block = 0 THEN 4 ELSE IF block = 3 THEN 1 ELSE 2

\* The events the list is made of: Transfer events named from/to/value
\* between tracked and untracked addresses, one named _from/_to/_value,
\* one with none of the names set_keys knows, and an event that is
\* not a Transfer.
TransferPool ==
    { [event |-> "Transfer", blockNumber |-> q[2],
       args |-> [from |-> q[1][1], to |-> q[1][2], value |-> AmountIn(q[2])]] :
        q \in ({ <<"a", "b">>, <<"x", "a">> } \X {0, 3, 5})
              \cup ({ <<"a", "a">>, <<"b", "a">>, <<"a", "x">>, <<"x", "x">> } \X {3, 5}) }
    \cup { [event |-> "Transfer", blockNumber |-> 3,
            args |-> [_from |-> "x", _to |-> "a", _value |-> 1]],
           [event |-> "Transfer", blockNumber |-> 3,
            args |-> [src |-> "a", dst |-> "b", wad |-> 1]],
           [event |-> "Approval", blockNumber |-> 5,
            args |-> [owner |-> "a", spender |-> "b", value |-> 7]] }

\* self.addresses.values(), lines 58 and 62.
AddressValues(p) == { p.addresses[n] : n \in DOMAIN p.addresses }

\* find_key, lines 75-85: the keys it may return (several when the event
\* has more than one of the candidates; none: it raises ValueError).
FindKey(args, candidates) == candidates \cap DOMAIN args

\* set_keys, lines 87-96: the key tables it may leave.
SetKeys(event) ==
    { [from |-> f, to |-> t, amount |-> a] :
        f \in FindKey(event.args, {"from", "_from"}),
        t \in FindKey(event.args, {"to", "_to"}),
        a \in FindKey(event.args, {"amount", "value", "_value"}) }

\* A defaultdict read, lines 23-24: the value of a key, the default when the
\* key is missing; and the dictionary after the read, with the key in it.
DictGet(dict, key, default) == IF key \in DOMAIN dict THEN dict[key] ELSE default
DictTouch(dict, key, default) == IF key \in DOMAIN dict THEN dict ELSE (key :> default) @@ dict

EmptyDict == [k \in {} |-> 0]

\* UpdateBalance with the change added to the balance of the same block.
UpdateBalanceSameBlock(p, account, change, block) ==
    LET of_account == DictTouch(DictGet(p.balances, account, EmptyDict), block, 0)
    IN [p EXCEPT !.balances = (account :> ((block :> of_account[block] + change)
                                             @@ of_account)) @@ p.balances,
                 !.last_update = (account :> block) @@ p.last_update]

\* update_balance, lines 65-73.
UpdateBalance(p, account, change, block) ==
    LET last_updated_block == DictGet(p.last_update, account, 0)
        of_account == DictTouch(DictGet(p.balances, account, EmptyDict),
                                last_updated_block, 0)
    IN [p EXCEPT !.balances = (account :> ((block :> of_account[last_updated_block] + change)
                                             @@ of_account)) @@ p.balances,
                 !.last_update = (account :> block) @@ p.last_update]

\* handle_transfer_event, lines 47-63, raises KeyError when the event's
\* arguments lack one of the keys in use.
HandleRaises(p, event) ==
    \E k \in {"from", "to", "amount"} : p.keys[k] \notin DOMAIN event.args

\* handle_transfer_event, lines 47-63, for a Transfer that has the keys.
HandleTransferEvent(p, event) ==
    LET from == event.args[p.keys.from]
        to == event.args[p.keys.to]
        amount == event.args[p.keys.amount]
        block == event.blockNumber
        debited == IF from \in AddressValues(p)
                   THEN UpdateBalance(p, from, -1 * amount, block)
                   ELSE p
    IN IF to \in AddressValues(p)
       THEN UpdateBalance(debited, to, amount, block)
       ELSE debited

ParserInit ==
    /\ FetchIdle
    /\ DecoderIdle
    /\ CacheIdle
    /\ IteratorIdle
    /\ CallerIdle
    /\ \E start \in {None, Some(4)} :
          transfer_event_parser =
              [addresses |-> TrackedAddresses, start |-> start,
               keys |-> [amount |-> "amount", to |-> "to", from |-> "from"],
               balances |-> EmptyDict, last_update |-> EmptyDict,
               first_event |-> TRUE, events |-> <<>>,
               pc |-> "running", exc |-> NoExc]

\* One round of the loop of execute_events, lines 37-45, for the next event
\* of the list.
ExecuteEvent(event) ==
    /\ transfer_event_parser.pc = "running"
    /\ Len(transfer_event_parser.events) < MaxEvents
    /\ LET p == transfer_event_parser
           seen == [p EXCEPT !.events = Append(@, event)]
       IN IF event.event # "Transfer"
          THEN transfer_event_parser' = seen
          ELSE IF p.first_event /\ SetKeys(event) = {}
          THEN transfer_event_parser' =
                  [p EXCEPT !.pc = "raised", !.exc = PlainExc("ValueError")]
          ELSE \E keys \in (IF p.first_event THEN SetKeys(event) ELSE {p.keys}) :
                  LET keyed == [seen EXCEPT
                                   !.keys = keys,
                                   !.first_event = FALSE,
                                   !.start = IF p.first_event /\ IsNone(p.start)
                                             THEN Some(event.blockNumber) ELSE @]
                  IN IF HandleRaises(keyed, event)
                     THEN transfer_event_parser' =
                             [keyed EXCEPT !.events = p.events, !.pc = "raised",
                                           !.exc = PlainExc("KeyError")]
                     ELSE transfer_event_parser' = HandleTransferEvent(keyed, event)
    /\ UNCHANGED <<fetchVars, decoderVars, cacheVars, iteratorVars, callerVars>>

\* The list is exhausted: execute_events returns.
ExecuteEventsReturn ==
    /\ transfer_event_parser.pc = "running"
    /\ transfer_event_parser' = [transfer_event_parser EXCEPT !.pc = "returned"]
    /\ UNCHANGED <<fetchVars, decoderVars, cacheVars, iteratorVars, callerVars>>

ParserNext ==
    \/ \E event \in TransferPool : ExecuteEvent(event)
    \/ ExecuteEventsReturn

ParserSpec == ParserInit /\ [][ParserNext]_vars

(***************************************************************************)
(* What the claims speak of.                                               *)
(***************************************************************************)
Range(f) == { f[k] : k \in DOMAIN f }

\* Occurrences of x in sequence f.
Count(f, x) == Cardinality({ k \in DOMAIN f : f[k] = x })

\* The candidate widths as the class declares them (line 105).
DeclaredWidths == ContractFetcherClass.BLOCK_GRANUALARITIES

\* Log queries job j has issued, in order.
GetLogs(j) == SelectSeq(rpc[j], LAMBDA r : r.op = "getLogs")

LogQuery(from_block, to_block) ==
    [op |-> "getLogs", from_block |-> from_block, to_block |-> to_block]

\* The generator body of job j has run far enough to know its range.
ReachedFetch(j) == j <= Len(tasks) /\ ~IsNone(jend[j])

\* Whether some sub-range of slice [s, e] at width g is refused by t.
AttemptFails(t, s, e, g) ==
    \E k \in 1..Iterations(s, e, g) :
        RequestFails(t, StartBlock(s, g, k), EndBlock(s, e, g, k))

\* Every declared width, the finest included, has a failing sub-range.
SliceUnfetchable(t, s, e) ==
    \A gi \in 1..Len(DeclaredWidths) : AttemptFails(t, s, e, DeclaredWidths[gi])

\* Index of the largest declared width at which slice [s, e] goes through.
AcceptedIndex(t, s, e) ==
    CHOOSE gi \in 1..Len(DeclaredWidths) :
        /\ ~AttemptFails(t, s, e, DeclaredWidths[gi])
        /\ \A h \in 1..(gi - 1) : AttemptFails(t, s, e, DeclaredWidths[h])

\* Outer slices of job j's range, numbered from 0 (line 175).
SliceIndexes(j) ==
    0..(BatchCount(tasks[j].start_block, Get(jend[j]), DeclaredWidths[1]) - 1)
SliceStart(j, i) == BatchStart(tasks[j].start_block, i, DeclaredWidths[1])
SliceEnd(j, i) == BatchEnd(tasks[j].start_block, Get(jend[j]), i, DeclaredWidths[1])

\* First outer slice of job j that no declared width can fetch, if any.
HasUnfetchableSlice(j) ==
    \E i \in SliceIndexes(j) : SliceUnfetchable(transport, SliceStart(j, i), SliceEnd(j, i))
FirstUnfetchableSlice(j) ==
    CHOOSE i \in SliceIndexes(j) :
        /\ SliceUnfetchable(transport, SliceStart(j, i), SliceEnd(j, i))
        /\ \A h \in 0..(i - 1) :
              ~SliceUnfetchable(transport, SliceStart(j, h), SliceEnd(j, h))

\* Lines of the sink of job j (None: the file does not exist).
Sink(j) == fs[JobPath(j)]

\* Non-decreasing block order.
BlockOrdered(events) ==
    \A a, b \in DOMAIN events : a < b => events[a].block <= events[b].block

\* What one job does when it runs with no other job beside it: the
\* exception it ends with and the sink it leaves.
SoloRun(path, task) ==
    IF path \in Unwritable
    THEN [exc |-> PlainExc("OSError"), sink |-> None]
    ELSE IF task.abi = "invalid"
    THEN [exc |-> PlainExc("ValueError"), sink |-> Some(<<>>)]
    ELSE IF IsNone(task.end_block) /\ transport.head_fails
    THEN [exc |-> PlainExc("TransportError"), sink |-> Some(<<>>)]
    ELSE [exc |-> PlainExc("AttributeError"), sink |-> Some(<<>>)]

(***************************************************************************)
(* C1 (as claimed).  The events fetch_events yields for a range are the    *)
(* results of the sub-ranges joined by start position.  Against a          *)
(* transport that serves every query (each response in block order), the   *)
(* job therefore ends having output the responses of its outer slices in   *)
(* slice order: the entries of the range in non-decreasing block order,    *)
(* those of one block in the transport's order.                            *)
(***************************************************************************)
RECURSIVE JoinSlices(_, _)
JoinSlices(j, n) ==
    IF n = 0 THEN <<>>
    ELSE JoinSlices(j, n - 1)
           \o Response(tasks[j].address, SliceStart(j, n - 1), SliceEnd(j, n - 1))

C1_JoinedByStartPosition ==
    \A j \in Jobs :
        (/\ Ended(j)
         /\ ReachedFetch(j)
         /\ IsNone(transport.limit)
         /\ transport.bad = {}
         /\ ~transport.head_fails) =>
            /\ Sink(j) # None
            /\ BlockOrdered(Get(Sink(j)))
            /\ Get(Sink(j)) = JoinSlices(j, Cardinality(SliceIndexes(j)))

(***************************************************************************)
(* C2.  Bulk mode: an exception of any kind raised by one job is caught    *)
(* at the per-job boundary (it never leaves fetch_all_events) and is       *)
(* logged as an error with that job's name and address; no other job is    *)
(* cancelled, and when the run returns every job has ended exactly as it   *)
(* ends when run alone, its sink holding exactly the same content.         *)
(***************************************************************************)
C2_FailureIsolated ==
    mode = "bulk" =>
        /\ submitted > 0 => mpc # "raised" /\ mexc = NoExc
        /\ \A j \in handled :
              jexc[j] # NoExc =>
                  [level |-> "error", name |-> tasks[j].name,
                   address |-> tasks[j].address, ex |-> jexc[j]] \in Range(log)
        /\ mpc = "returned" =>
              \A j \in Jobs :
                  /\ Ended(j)
                  /\ jexc[j] = SoloRun(JobPath(j), tasks[j]).exc
                  /\ Sink(j) = SoloRun(JobPath(j), tasks[j]).sink

\* A bulk run of at least two jobs has returned; two jobs failed with
\* exceptions of different kinds, both are logged, and one of them left the
\* sink it had opened.
C2_Witness ==
    /\ mode = "bulk"
    /\ mpc = "returned"
    /\ \E i, j \in Jobs :
          /\ i # j
          /\ jexc[i].type = "OSError"
          /\ jexc[j].type = "AttributeError"
          /\ Sink(i) = None
          /\ Sink(j) = Some(<<>>)
          /\ Count(log, OutcomeRecord(i)) = 1
          /\ Count(log, OutcomeRecord(j)) = 1

(***************************************************************************)
(* C3 (as claimed).  When some outer slice of a job has a failing          *)
(* sub-range at every declared width, the finest included, the job ends    *)
(* with the unfetchable-range error, which names the contract address and  *)
(* the block range of that slice; no log query follows the failing slice.  *)
(***************************************************************************)
C3_UnfetchableRangeError ==
    \A j \in Jobs :
        (Ended(j) /\ ReachedFetch(j) /\ HasUnfetchableSlice(j)) =>
            LET i == FirstUnfetchableSlice(j)
            IN /\ jexc[j] = Exc("ValueError", tasks[j].address,
                                <<SliceStart(j, i), SliceEnd(j, i)>>)
               /\ \A r \in Range(GetLogs(j)) : r.to_block <= SliceEnd(j, i)

(***************************************************************************)
(* C4.  Single-job mode: when the job fails, the same exception leaves     *)
(* the command (it is raised to the caller, never swallowed), and the      *)
(* sink the job opened is still there holding exactly what was written     *)
(* before the failure.  Every failure of the fetch precedes the first      *)
(* outer slice, so that content is the empty sequence of events.           *)
(***************************************************************************)
C4_SingleFailureSurfaces ==
    (mode = "single" /\ Len(tasks) = 1) =>
        /\ mpc \in {"returned", "raised"} =>
              /\ mexc = jexc[1]
              /\ Ended(1)
              /\ mpc = "raised" <=> jexc[1] # NoExc
        /\ (jpc[1] \notin {"new", "open"} /\ jexc[1].type # "OSError") =>
              Sink(1) = Some(<<>>)

\* The fetch of a single job failed after its sink was opened, and the
\* failure has reached the caller.
C4_Witness ==
    /\ mode = "single"
    /\ mpc = "raised"
    /\ mexc.type \in {"AttributeError", "TransportError"}
    /\ mexc = jexc[1]
    /\ Sink(1) = Some(<<>>)

(***************************************************************************)
(* C5 (as claimed).  Against a transport that refuses exactly the log      *)
(* queries wider than W blocks, a job over a range with start_block <=     *)
(* end_block ends without error; for every outer slice the sub-ranges of   *)
(* the largest declared width that fits W were all queried, and no query   *)
(* was issued at a finer width.                                            *)
(***************************************************************************)
C5_SucceedsAtLargestFittingWidth ==
    \A j \in Jobs :
        (/\ Ended(j)
         /\ ReachedFetch(j)
         /\ ~IsNone(transport.limit)
         /\ transport.bad = {}
         /\ tasks[j].start_block <= Get(jend[j])) =>
            /\ jexc[j] = NoExc
            /\ \A i \in SliceIndexes(j) :
                  LET s == SliceStart(j, i)
                      e == SliceEnd(j, i)
                      gi == AcceptedIndex(transport, s, e)
                      g == DeclaredWidths[gi]
                  IN /\ \A k \in 1..Iterations(s, e, g) :
                            LogQuery(StartBlock(s, g, k), EndBlock(s, e, g, k))
                                \in Range(GetLogs(j))
                     /\ \A r \in Range(GetLogs(j)) :
                            (s <= r.from_block /\ r.to_block <= e) =>
                                \E h \in 1..gi :
                                    \E k \in 1..Iterations(s, e, DeclaredWidths[h]) :
                                        r = LogQuery(StartBlock(s, DeclaredWidths[h], k),
                                                     EndBlock(s, e, DeclaredWidths[h], k))

(***************************************************************************)
(* C6 (as claimed).  Against a transport that refuses nothing, a job ends  *)
(* without error having issued exactly one log query per outer slice, the  *)
(* slice itself: ceil(block_count / 10000) queries, in slice order.        *)
(***************************************************************************)
C6_OneCallPerSlice ==
    \A j \in Jobs :
        (/\ Ended(j)
         /\ ReachedFetch(j)
         /\ IsNone(transport.limit)
         /\ transport.bad = {}
         /\ ~transport.head_fails) =>
            /\ jexc[j] = NoExc
            /\ GetLogs(j) =
                  [k \in 1..BatchCount(tasks[j].start_block, Get(jend[j]), DeclaredWidths[1])
                      |-> LogQuery(SliceStart(j, k - 1), SliceEnd(j, k - 1))]

(***************************************************************************)
(* C7.  Bulk mode: fetch_all_events never raises for a job's failure and   *)
(* never stops before it has returned; when it returns, every job has      *)
(* ended and the log holds exactly one outcome record per job (also with   *)
(* more jobs than workers).  At any time the records logged are those of   *)
(* jobs that have ended, one per handled job.                              *)
(***************************************************************************)
C7_EveryJobReported ==
    mode = "bulk" =>
        /\ mpc = "raised" => submitted = 0 /\ Len(tasks) < Len(raw)
        /\ mpc \in {"submit", "collect"} => ENABLED Next
        /\ Len(log) = Cardinality(handled)
        /\ \A j \in handled : Ended(j)
        /\ mpc = "returned" =>
              /\ Len(log) = Len(raw)
              /\ \A j \in Jobs :
                    /\ Ended(j)
                    /\ Count(log, OutcomeRecord(j))
                         = Cardinality({ i \in Jobs : OutcomeRecord(i) = OutcomeRecord(j) })

\* A bulk run with more jobs than workers has returned with one record
\* per job.
C7_Witness ==
    /\ mode = "bulk"
    /\ mpc = "returned"
    /\ Len(raw) > MaxWorkers
    /\ Len(log) = Len(raw)
    /\ \E i, j \in Jobs : OutcomeRecord(i) # OutcomeRecord(j)

(***************************************************************************)
(* C8 (as claimed).  Bulk run of jobs [A, B], A well configured and B      *)
(* with a configuration error (ABI missing or unparseable, or an output    *)
(* path that cannot be opened): the run ends by returning, A's sink holds  *)
(* all events of A's range, B has no output file, and B's failure is       *)
(* logged.                                                                 *)
(***************************************************************************)
WellConfigured(r) ==
    /\ r.abi = "ok"
    /\ ~IsNone(r.end_block)
    /\ FilePath(OutputDirectory, r) \notin Unwritable

ConfigurationError(r) ==
    \/ r.abi \in {"missing", "unparseable"}
    \/ r.abi = "ok" /\ FilePath(OutputDirectory, r) \in Unwritable

C8_BulkConfigurationError ==
    (/\ mode = "bulk"
     /\ Len(raw) = 2
     /\ WellConfigured(raw[1])
     /\ ConfigurationError(raw[2])
     /\ IsNone(transport.limit) /\ transport.bad = {} /\ ~transport.head_fails
     /\ mpc \in {"returned", "raised"}) =>
        /\ mpc = "returned"
        /\ fs[FilePath(output, raw[1])]
             = Some(Response(raw[1].address, raw[1].start_block, Get(raw[1].end_block)))
        /\ fs[FilePath(output, raw[2])] = None
        /\ \E k \in DOMAIN log :
              /\ log[k].level = "error"
              /\ log[k].name = raw[2].name
              /\ log[k].address = raw[2].address

(***************************************************************************)
(* C9 (as claimed).  When some outer slice has a failing sub-range at      *)
(* every declared width, the job ends with the unfetchable-range error     *)
(* and its output holds the events of the blocks before the first block    *)
(* that cannot be fetched (they were retrieved by successful sub-ranges).  *)
(***************************************************************************)
C9_RetrievedEventsKept ==
    \A j \in Jobs :
        (Ended(j) /\ ReachedFetch(j) /\ HasUnfetchableSlice(j)) =>
            /\ jexc[j].type = "ValueError"
            /\ Sink(j) # None
            /\ \A x \in Range(LogsOf(tasks[j].address)) :
                  (/\ tasks[j].start_block <= x.block
                   /\ \A b \in tasks[j].start_block..x.block :
                         ~RequestFails(transport, b, b)) =>
                      x \in Range(Get(Sink(j)))

(***************************************************************************)
(* C10 (as claimed).  Range 0..25000 against a transport that refuses      *)
(* queries wider than 5000 blocks: the job ends without error; the         *)
(* queries that went through are exactly 26, each a width-1000 sub-range   *)
(* of its slice; at least one wider query was refused; the total is the    *)
(* refused queries plus 26; and the output is in block order.              *)
(***************************************************************************)
C10_Scenario25000 ==
    \A j \in Jobs :
        (/\ Ended(j)
         /\ ReachedFetch(j)
         /\ tasks[j].start_block = 0
         /\ jend[j] = Some(25000)
         /\ transport.limit = Some(5000)
         /\ transport.bad = {}) =>
            LET calls == GetLogs(j)
                refused == SelectSeq(calls,
                               LAMBDA r : RequestFails(transport, r.from_block, r.to_block))
                served == SelectSeq(calls,
                               LAMBDA r : ~RequestFails(transport, r.from_block, r.to_block))
            IN /\ jexc[j] = NoExc
               /\ Len(refused) >= 1
               /\ Len(served) = 26
               /\ \A r \in Range(served) :
                     \E i \in SliceIndexes(j) :
                         \E k \in 1..Iterations(SliceStart(j, i), SliceEnd(j, i), 1000) :
                             r = LogQuery(StartBlock(SliceStart(j, i), 1000, k),
                                          EndBlock(SliceStart(j, i), SliceEnd(j, i), 1000, k))
               /\ Len(calls) = Len(refused) + 26
               /\ Sink(j) # None
               /\ BlockOrdered(Get(Sink(j)))
               /\ Get(Sink(j)) = Response(tasks[j].address, 0, 25000)

(***************************************************************************)
(* C11 (as claimed).  A job over a single block (start_block = end_block)  *)
(* that the transport serves ends without error having issued exactly one  *)
(* log query, for that block.                                              *)
(***************************************************************************)
C11_SingleBlockOneCall ==
    \A j \in Jobs :
        (/\ Ended(j)
         /\ ReachedFetch(j)
         /\ tasks[j].start_block = Get(jend[j])
         /\ ~RequestFails(transport, tasks[j].start_block, Get(jend[j]))) =>
            /\ jexc[j] = NoExc
            /\ GetLogs(j) = <<LogQuery(tasks[j].start_block, Get(jend[j]))>>

(***************************************************************************)
(* C14.  A job whose end_block is omitted queries the chain head at most   *)
(* once, as its first transport request; once the query was answered the   *)
(* job's end_block is the answer and stays the answer while the chain      *)
(* grows, and no log query of the job reaches beyond it.  A job whose      *)
(* end_block is given never queries the chain head.                        *)
(***************************************************************************)
HeadQueries(j) == SelectSeq(rpc[j], LAMBDA r : r.op = "blockNumber")

C14_EndBlockSnapshot ==
    \A j \in Jobs :
        j <= Len(tasks) =>
            /\ Len(HeadQueries(j)) <= 1
            /\ ~IsNone(tasks[j].end_block) =>
                  /\ HeadQueries(j) = <<>>
                  /\ jend[j] \in {None, tasks[j].end_block}
            /\ IsNone(tasks[j].end_block) =>
                  /\ rpc[j] # <<>> => rpc[j][1].op = "blockNumber"
                  /\ jpc[j] \in {"new", "queued", "open", "build", "iter"} =>
                        rpc[j] = <<>> /\ IsNone(jend[j])
                  /\ ~IsNone(jend[j]) =>
                        /\ Len(HeadQueries(j)) = 1
                        /\ jend[j] = rpc[j][1].result
                  /\ (Ended(j) /\ jexc[j].type \in {"AttributeError", "None"}) =>
                        ~IsNone(jend[j])
            /\ \A r \in Range(GetLogs(j)) :
                  ~IsNone(jend[j]) /\ r.to_block <= Get(jend[j])

\* A job with no end_block has taken its snapshot of the chain head, the
\* chain has grown since, and the job went on (to the end of line 173)
\* with the snapshot and without a second query.
C14_Witness ==
    \E j \in Jobs :
        /\ j <= Len(tasks)
        /\ IsNone(tasks[j].end_block)
        /\ jexc[j].type = "AttributeError"
        /\ rpc[j] = <<HeadQuery(Some(ChainHead))>>
        /\ jend[j] = Some(ChainHead)
        /\ head > ChainHead

(***************************************************************************)
(* C15 (as claimed).  Bulk mode: no two jobs of one run have the same      *)
(* output path, so no two jobs ever have the same file open.               *)
(***************************************************************************)
C15_OwnSinkPerJob ==
    mode = "bulk" =>
        \A i, j \in Jobs :
            (/\ i # j
             /\ jpc[i] \notin {"new", "queued", "open"}
             /\ jpc[j] \notin {"new", "queued", "open"}) =>
                JobPath(i) # JobPath(j)

(***************************************************************************)
(* C16.  When the entry has at least one topic and its first topic is the  *)
(* signature hash of a non-anonymous event of the contract's ABI,          *)
(* process_log returns that event decoded (the event's name and its        *)
(* arguments by name, in the order the ABI declares them); for an entry    *)
(* without a topics field, with no topic, or with a first topic that is    *)
(* no such hash (the hash of an anonymous event included), it returns the  *)
(* entry unchanged and raises nothing.                                     *)
(***************************************************************************)
Registered(e) ==
    { ev \in abi : /\ ~ev.anonymous
                   /\ ~IsNone(e.topics)
                   /\ Len(Get(e.topics)) >= 1
                   /\ Get(e.topics)[1] = ev.sighash }

SliceWritten(j, i) ==
    /\ Sink(j) # None
    /\ \A x \in Range(Response(tasks[j].address, SliceStart(j, i), SliceEnd(j, i))) :
          x \in Range(Get(Sink(j)))

C18_StreamedSliceBySlice ==
    (mode = "single" /\ ReachedFetch(1)) =>
        /\ \A r \in Range(GetLogs(1)) :
              \A i \in SliceIndexes(1) :
                  SliceEnd(1, i) < r.from_block => SliceWritten(1, i)
        /\ (/\ Ended(1)
            /\ IsNone(transport.limit)
            /\ transport.bad = {}) =>
               \A i \in SliceIndexes(1) : SliceWritten(1, i)

(***************************************************************************)
(* What the claims about the cache speak of, for the call a step makes     *)
(* (unprimed: when the call starts; primed: when it has returned).         *)
(***************************************************************************)
\* The step is a call of the decorated function.
IsCall == ncalls' # ncalls

CallKey == Get(last').key
CallSource == Get(last').source
CallValue == Get(last').value
CallEllapse == Get(last').ellapse
CallAccepted == Get(last').accepted

\* An entry written at tick t has an age below ttl seconds now.
YoungerThanTtl(t) == now - t < cfg.ttl * TicksPerSecond

MemoryEntryUsable ==
    /\ ~IsNone(memory_cache[CallKey])
    /\ cfg.ttl >= 0 => YoungerThanTtl(Get(memory_cache[CallKey]).inserted_at)

DiskEntryUsable ==
    /\ ~IsNone(disk[CallKey])
    /\ cfg.ttl >= 0 => YoungerThanTtl(Get(disk[CallKey]).st_mtime)

\* The call stored its result in memory / on disk.
StoredInMemory ==
    /\ memory_cache'[CallKey] # memory_cache[CallKey]
    /\ memory_cache'[CallKey] = Some([inserted_at |-> now', value |-> CallValue])

StoredOnDisk ==
    disk'[CallKey] = Some([st_mtime |-> now', value |-> CallValue])

(***************************************************************************)
(* C19 (as claimed).  A call returns a stored result only of its own key   *)
(* and, with ttl >= 0, only while the entry's age is below ttl seconds;    *)
(* an entry whose age has reached ttl is deleted when the call finds it,   *)
(* and when no entry of the key is young enough the wrapped function is    *)
(* called again.  With a negative ttl, once a result is stored for a key   *)
(* no call with that key calls the wrapped function.                       *)
(***************************************************************************)
C19Step ==
    /\ CallSource = "memory" =>
          MemoryEntryUsable /\ CallValue = Get(memory_cache[CallKey]).value
    /\ CallSource = "disk" =>
          DiskEntryUsable /\ CallValue = Get(disk[CallKey]).value
    /\ (~IsNone(memory_cache[CallKey]) /\ ~MemoryEntryUsable) =>
          memory_cache'[CallKey] # memory_cache[CallKey]
    /\ (~IsNone(disk[CallKey]) /\ ~DiskEntryUsable /\ CallSource # "memory") =>
          disk'[CallKey] \in {None, Some([st_mtime |-> now', value |-> CallValue])}
    /\ (cfg.ttl >= 0 /\ ~MemoryEntryUsable /\ ~DiskEntryUsable) =>
          CallSource = "fn"
    /\ (cfg.ttl < 0 /\ (~IsNone(memory_cache[CallKey]) \/ ~IsNone(disk[CallKey]))) =>
          CallSource # "fn"

C19_TtlGovernsReuse == [][IsCall => C19Step]_vars

(***************************************************************************)
(* C20 (as claimed).  After an uncached call the result is stored in       *)
(* memory iff the call took at least min_memory_time and less than         *)
(* min_disk_time, on disk iff it took at least min_disk_time, nowhere if   *)
(* it was faster than min_memory_time or should_cache rejects it, and      *)
(* never in both tiers.                                                    *)
(***************************************************************************)
C20StepAsClaimed ==
    CallSource = "fn" =>
        /\ StoredInMemory <=>
              (/\ CallAccepted
               /\ cfg.min_memory_time <= CallEllapse
               /\ CallEllapse < cfg.min_disk_time)
        /\ StoredOnDisk <=> (CallAccepted /\ CallEllapse >= cfg.min_disk_time)
        /\ (CallEllapse < cfg.min_memory_time \/ ~CallAccepted) =>
              ~StoredInMemory /\ ~StoredOnDisk
        /\ ~(StoredInMemory /\ StoredOnDisk)

C20_TierByDuration == [][IsCall => C20StepAsClaimed]_vars

(***************************************************************************)
(* C20 (amended).  After an uncached call the result is stored in memory   *)
(* iff should_cache does not reject it and the call took at least          *)
(* min_memory_time and less than min_disk_time, on disk iff should_cache   *)
(* does not reject it and the call took at least min_disk_time, nowhere    *)
(* if it was faster than both thresholds or should_cache rejects it, and   *)
(* never in both tiers.                                                    *)
(***************************************************************************)
C20StepAmended ==
    CallSource = "fn" =>
        /\ StoredInMemory <=>
              (/\ CallAccepted
               /\ cfg.min_memory_time <= CallEllapse
               /\ CallEllapse < cfg.min_disk_time)
        /\ StoredOnDisk <=> (CallAccepted /\ CallEllapse >= cfg.min_disk_time)
        /\ ((/\ CallEllapse < cfg.min_memory_time
             /\ CallEllapse < cfg.min_disk_time) \/ ~CallAccepted) =>
              /\ memory_cache'[CallKey] \in {None, memory_cache[CallKey]}
              /\ disk'[CallKey] = None
        /\ ~(StoredInMemory /\ StoredOnDisk)

C20_TierByDurationAmended == [][IsCall => C20StepAmended]_vars

\* With min_disk_time below min_memory_time, a call faster than
\* min_memory_time has stored its result on disk.
C20_Witness ==
    /\ ~IsNone(last)
    /\ Get(last).source = "fn"
    /\ Get(last).accepted
    /\ cfg.min_disk_time <= Get(last).ellapse
    /\ Get(last).ellapse < cfg.min_memory_time
    /\ disk[Get(last).key] = Some([st_mtime |-> now, value |-> Get(last).value])
    /\ IsNone(memory_cache[Get(last).key])


(***************************************************************************)
(* BlockIterator: what the claims speak about.                             *)
(***************************************************************************)
\* The iterator was built from start_block and end_block (no blocks given)
\* and __init__ returned.
BuiltFromEnds ==
    /\ block_iterator # None
    /\ IsNone(block_iterator.args.blocks)
    /\ block_iterator.pc \in {"built", "iterating", "stopped"}
          \/ /\ block_iterator.pc = "raised"
             /\ block_iterator.exc = PlainExc("TransportError")
             /\ block_iterator.calls[Len(block_iterator.calls)].op = "getBlock"

\* The first and the last block number asked for: the defaults are block 0
\* and the head the transport answered with.
FirstBlock ==
    IF IsNone(block_iterator.args.start_block) THEN 0
    ELSE Get(block_iterator.args.start_block)

LastBlock ==
    IF IsNone(block_iterator.args.end_block) THEN Get(block_iterator.calls[1].result)
    ELSE Get(block_iterator.args.end_block)

GetBlockCalls == SelectSeq(block_iterator.calls, LAMBDA c : c.op = "getBlock")

\* A next() call ended with the exception of getBlock.
GetBlockFailed ==
    /\ block_iterator.pc = "raised"
    /\ block_iterator.calls[Len(block_iterator.calls)].op = "getBlock"

\* The blocks yielded so far are those of the first numbers of the range,
\* ascending, each fetched by its own getBlock call, in that order.
YieldsRangeLazily ==
    /\ block_iterator.yielded =
          [k \in 1..Len(block_iterator.yielded) |-> BlockData(FirstBlock + k - 1)]
    /\ GetBlockCalls =
          [k \in 1..Len(GetBlockCalls) |-> GetBlockCall(FirstBlock + k - 1)]
    /\ Len(GetBlockCalls) = Len(block_iterator.yielded) + (IF GetBlockFailed THEN 1 ELSE 0)
    /\ block_iterator.pc = "built" => GetBlockCalls = <<>>

\* C21, as claimed: a BlockIterator built from start_block and end_block
\* yields one Block per number from start_block on, ascending, with one
\* getBlock call per next() and none before the first; after n successful
\* next() calls processed_count equals n, and iteration stops after
\* end_block - start_block + 1 blocks.
C21_InclusiveRangeAsClaimed ==
    BuiltFromEnds =>
        /\ YieldsRangeLazily
        /\ block_iterator.processed_count = Len(block_iterator.yielded)
        /\ block_iterator.pc = "stopped" =>
              Len(block_iterator.yielded) = LastBlock - FirstBlock + 1

\* C21, amended: the same, except that processed_count counts every next()
\* that asked for a block, the one whose getBlock raised included, and that
\* iteration stops after end_block - start_block + 1 blocks when that number
\* is positive and after no block otherwise.
C21_InclusiveRange ==
    BuiltFromEnds =>
        /\ YieldsRangeLazily
        /\ block_iterator.processed_count = Len(GetBlockCalls)
        /\ ~GetBlockFailed => block_iterator.processed_count = Len(block_iterator.yielded)
        /\ Len(block_iterator.yielded) <= block_iterator.blocks_count
        /\ block_iterator.blocks_count =
              (IF LastBlock - FirstBlock + 1 > 0 THEN LastBlock - FirstBlock + 1 ELSE 0)
        /\ block_iterator.pc = "stopped" =>
              Len(block_iterator.yielded) = block_iterator.blocks_count

\* Blocks 3, 4 and 5 were yielded and the iteration stopped.
C21_Witness ==
    /\ BuiltFromEnds
    /\ block_iterator.pc = "stopped"
    /\ block_iterator.args.start_block = Some(3)
    /\ block_iterator.args.end_block = Some(5)
    /\ block_iterator.yielded = <<BlockData(3), BlockData(4), BlockData(5)>>
    /\ block_iterator.processed_count = 3


(***************************************************************************)
(* C22 (as claimed).  When an attempt on an outer slice fails at a width   *)
(* that is not the finest (so do the attempts at the wider widths, which   *)
(* come first), the slice is retried at the next finer width: a sub-range  *)
(* of that width is queried.  No event is in the job's output twice.       *)
(***************************************************************************)
FetchableBefore(j, i) ==
    \A h \in 0..(i - 1) : ~SliceUnfetchable(transport, SliceStart(j, h), SliceEnd(j, h))

SubRangeQueried(j, s, e, g) ==
    \E k \in 1..Iterations(s, e, g) :
        LogQuery(StartBlock(s, g, k), EndBlock(s, e, g, k)) \in Range(GetLogs(j))

C22_RetriedAtNextFinerWidth ==
    \A j \in Jobs :
        (Ended(j) /\ ReachedFetch(j)) =>
            /\ \A i \in SliceIndexes(j) :
                  FetchableBefore(j, i) =>
                      \A gi \in 1..(Len(DeclaredWidths) - 1) :
                          (\A h \in 1..gi :
                              AttemptFails(transport, SliceStart(j, i), SliceEnd(j, i),
                                           DeclaredWidths[h])) =>
                              SubRangeQueried(j, SliceStart(j, i), SliceEnd(j, i),
                                              DeclaredWidths[gi + 1])
            /\ Sink(j) # None =>
                  \A x \in Range(Get(Sink(j))) : Count(Get(Sink(j)), x) = 1

(***************************************************************************)
(* C23 (as claimed).  Every log query a job issues is a sub-range of one   *)
(* of its outer slices at a declared width g: an inclusive interval of at  *)
(* most g blocks inside the slice, never beyond end_block; and the outer   *)
(* slices tile [start_block, end_block] with no gap: against a transport   *)
(* that leaves no slice unfetchable, every block of the range is covered   *)
(* by a query of the ended job.                                            *)
(***************************************************************************)
IsSubRange(j, r) ==
    \E i \in SliceIndexes(j) :
        \E gi \in 1..Len(DeclaredWidths) :
            \E k \in 1..Iterations(SliceStart(j, i), SliceEnd(j, i), DeclaredWidths[gi]) :
                /\ r = LogQuery(StartBlock(SliceStart(j, i), DeclaredWidths[gi], k),
                                EndBlock(SliceStart(j, i), SliceEnd(j, i),
                                         DeclaredWidths[gi], k))
                /\ r.from_block <= r.to_block
                /\ r.to_block - r.from_block + 1 <= DeclaredWidths[gi]
                /\ SliceStart(j, i) <= r.from_block
                /\ r.to_block <= SliceEnd(j, i)
                /\ r.to_block <= Get(jend[j])

C23_SlicesTileTheRange ==
    \A j \in Jobs :
        ReachedFetch(j) =>
            /\ \A r \in Range(GetLogs(j)) : IsSubRange(j, r)
            /\ (Ended(j) /\ ~HasUnfetchableSlice(j)) =>
                  \A i \in SliceIndexes(j) :
                      \A b \in {SliceStart(j, i), SliceEnd(j, i)} :
                          \E r \in Range(GetLogs(j)) :
                              r.from_block <= b /\ b <= r.to_block

(***************************************************************************)
(* C25 (as claimed).  The widths fetch_events and _fetch_batch iterate     *)
(* over are the sequence the class declares, <<10000, 1000, 100, 10, 1>>,  *)
(* strictly descending and ending with 1: the attribute they read is       *)
(* found and holds that sequence, so no fetch ends with AttributeError.    *)
(***************************************************************************)
StrictlyDescending(f) == \A a, b \in DOMAIN f : a < b => f[a] > f[b]

C25_DeclaredWidthsIterated ==
    /\ LookupGranularities.found
    /\ LookupGranularities.value = DeclaredWidths
    /\ DeclaredWidths = <<10000, 1000, 100, 10, 1>>
    /\ StrictlyDescending(DeclaredWidths)
    /\ DeclaredWidths[Len(DeclaredWidths)] = 1
    /\ \A j \in Jobs :
          (Ended(j) /\ ReachedFetch(j)) => jexc[j].type # "AttributeError"

(***************************************************************************)
(* C27 (as claimed).  When the range of a job holds an entry whose         *)
(* decoding raises, the slice of that entry is tried at all five widths    *)
(* (the sub-range holding the entry is queried at each) and the job ends   *)
(* with the unfetchable-range error of that slice, never with the          *)
(* exception of the decoding.                                              *)
(***************************************************************************)
DecodeFails(address, from_block, to_block) ==
    \E x \in Undecodable(address) : from_block <= x.block /\ x.block <= to_block

C27_DecodeFailureStepsDown ==
    \A j \in Jobs :
        (/\ Ended(j)
         /\ ReachedFetch(j)
         /\ DecodeFails(tasks[j].address, tasks[j].start_block, Get(jend[j]))) =>
            \E i \in SliceIndexes(j) :
                /\ DecodeFails(tasks[j].address, SliceStart(j, i), SliceEnd(j, i))
                /\ FetchableBefore(j, i) =>
                      /\ jexc[j] = Exc("ValueError", tasks[j].address,
                                       <<SliceStart(j, i), SliceEnd(j, i)>>)
                      /\ \A gi \in 1..Len(DeclaredWidths) :
                            \E r \in Range(GetLogs(j)) :
                                /\ IsSubRange(j, r)
                                /\ r.to_block - r.from_block + 1 <= DeclaredWidths[gi]
                                /\ DecodeFails(tasks[j].address, r.from_block, r.to_block)

(***************************************************************************)
(* C29 (as claimed).  A job whose fetch has started ends with completion   *)
(* or with the unfetchable-range error of one of its outer slices, and     *)
(* has queried no sub-range more often than there are declared widths.     *)
(***************************************************************************)
C29_EndsCompleteOrUnfetchable ==
    \A j \in Jobs :
        ReachedFetch(j) =>
            /\ \A r \in Range(GetLogs(j)) :
                  Count(GetLogs(j), r) <= Len(DeclaredWidths)
            /\ Ended(j) =>
                  \/ jexc[j] = NoExc
                  \/ \E i \in SliceIndexes(j) :
                        jexc[j] = Exc("ValueError", tasks[j].address,
                                      <<SliceStart(j, i), SliceEnd(j, i)>>)

(***************************************************************************)
(* C30 (as claimed).  A job whose start_block is greater than its resolved *)
(* end_block issues no log query and ends without error; in single-job     *)
(* mode its sink is left empty.                                            *)
(***************************************************************************)
C30_EmptyRange ==
    \A j \in Jobs :
        (ReachedFetch(j) /\ tasks[j].start_block > Get(jend[j])) =>
            /\ GetLogs(j) = <<>>
            /\ Ended(j) =>
                  /\ jexc[j] = NoExc
                  /\ mode = "single" => Sink(j) = Some(<<>>)


(***************************************************************************)
(* ContractCaller: what the claim speaks about.                            *)
(***************************************************************************)
\* collect_results got as far as submitting its tasks.
Collecting == contract_caller # None /\ contract_caller.pc \in {"collecting", "exhausted"}

\* The end and the start of the range with the defaults resolved: the head
\* the transport answered with, and the end block.
CallEnd ==
    IF IsNone(contract_caller.args.end_block) THEN Get(contract_caller.calls[1].result)
    ELSE Get(contract_caller.args.end_block)

CallStart ==
    IF IsNone(contract_caller.args.start_block) THEN CallEnd
    ELSE Get(contract_caller.args.start_block)

\* The tasks taken so far whose result is not None, and the place of such
\* a task among them.
Kept == { k \in Range(contract_caller.consumed) : ~IsNone(contract_caller.task[k].result) }
PlaceOf(k) == Cardinality({ h \in Kept : h <= k })

(***************************************************************************)
(* C31.  For a positive block_interval the blocks called are start_block,  *)
(* start_block + interval, ... up to end_block; each call is attempted at  *)
(* most 3 times, and a task ends without a result only when the call       *)
(* returned None or raised at each of 3 attempts.  The pairs yielded are    *)
(* (block, result of that block) in strictly ascending block order,        *)
(* whatever order the tasks finished in: they are those of the tasks taken *)
(* so far that have a result, in submission order.  A task without result  *)
(* never stops the generator: it raises nothing, it can always go on, and  *)
(* when it is exhausted every block that has a result was yielded.         *)
(***************************************************************************)
C31_OrderedResultsWithRetries ==
    /\ (contract_caller # None /\ contract_caller.pc = "raised") =>
          contract_caller.task = <<>> /\ contract_caller.yielded = <<>>
    /\ Collecting =>
          LET c == contract_caller
              i == c.args.block_interval
          IN /\ \A k \in DOMAIN c.blocks :
                    /\ c.blocks[k] = CallStart + (k - 1) * i
                    /\ c.blocks[k] <= CallEnd
             /\ CallStart + Len(c.blocks) * i > CallEnd
             /\ DOMAIN c.task = DOMAIN c.blocks
             /\ \A k \in DOMAIN c.task :
                    /\ c.task[k].attempts <= Tries
                    /\ c.task[k].failed => c.task[k].attempts = Tries
                    /\ c.task[k].state = "done" => c.task[k].attempts >= 1
             /\ \A a, b \in DOMAIN c.yielded :
                    a < b => c.yielded[a][1] < c.yielded[b][1]
             /\ Len(c.yielded) = Cardinality(Kept)
             /\ \A k \in Kept :
                    c.yielded[PlaceOf(k)] = <<c.blocks[k], ResultAt(c.blocks[k])>>
             /\ c.pc = "collecting" => ENABLED CallerNext
             /\ c.pc = "exhausted" =>
                    /\ \A k \in DOMAIN c.task : c.task[k].state = "done"
                    /\ \A k \in DOMAIN c.task :
                          ~IsNone(c.task[k].result) =>
                              \E n \in DOMAIN c.yielded : c.yielded[n][1] = c.blocks[k]

\* Blocks 3, 5, 7: the call at block 5 raised three times, the task of
\* block 7 finished first and that of block 3 last; blocks 3 and 7 were
\* yielded, in that order.
C31_Witness ==
    /\ Collecting
    /\ contract_caller.pc = "exhausted"
    /\ contract_caller.blocks = <<3, 5, 7>>
    /\ contract_caller.task[2].failed
    /\ contract_caller.task[2].attempts = 3
    /\ contract_caller.finished[1] # 1
    /\ contract_caller.finished[3] = 1
    /\ contract_caller.yielded = <<<<3, ResultAt(3)>>, <<7, ResultAt(7)>>>>


(***************************************************************************)
(* TransferEventParser: what the claim speaks about, read from the events  *)
(* processed so far and not from the parser's tables.                      *)
(***************************************************************************)
IsTransfer(e) == e.event = "Transfer"

\* Sender, receiver and amount of a Transfer, under whichever name it has.
SenderOf(e) == IF "from" \in DOMAIN e.args THEN e.args.from ELSE e.args._from
ReceiverOf(e) == IF "to" \in DOMAIN e.args THEN e.args.to ELSE e.args._to
AmountOf(e) == IF "value" \in DOMAIN e.args THEN e.args.value ELSE e.args._value

\* What the Transfer events among the first n events add to the balance of
\* an address: the amounts it received minus the amounts it sent.
RECURSIVE NetReceived(_, _, _)
NetReceived(events, n, a) ==
    IF n = 0 THEN 0
    ELSE NetReceived(events, n - 1, a)
           + (IF IsTransfer(events[n]) /\ ReceiverOf(events[n]) = a
              THEN AmountOf(events[n]) ELSE 0)
           - (IF IsTransfer(events[n]) /\ SenderOf(events[n]) = a
              THEN AmountOf(events[n]) ELSE 0)

TookPart(events, a) ==
    \E n \in DOMAIN events :
        IsTransfer(events[n]) /\ a \in {SenderOf(events[n]), ReceiverOf(events[n])}

\* The event leaves the tracked addresses alone: it is no Transfer, or a
\* Transfer between addresses nobody tracks.
Neutral(p, e) ==
    \/ ~IsTransfer(e)
    \/ {SenderOf(e), ReceiverOf(e)} \cap AddressValues(p) = {}

\* The balances the parser holds agree with the events it has processed.
BalancesAgree(p) ==
    /\ DOMAIN p.balances = { a \in AddressValues(p) : TookPart(p.events, a) }
    /\ DOMAIN p.last_update = DOMAIN p.balances
    /\ \A a \in DOMAIN p.balances :
          /\ p.last_update[a] \in DOMAIN p.balances[a]
          /\ p.balances[a][p.last_update[a]] = NetReceived(p.events, Len(p.events), a)

\* The step has processed one more event.
EventProcessed ==
    /\ transfer_event_parser # None
    /\ transfer_event_parser'.pc # "raised"
    /\ Len(transfer_event_parser'.events) = Len(transfer_event_parser.events) + 1

(***************************************************************************)
(* C32.  Whenever execute_events has processed one more event, every       *)
(* tracked address that took part in a Transfer has, at its last-updated   *)
(* block, the balance that is the sum of the amounts it received minus the *)
(* sum of the amounts it sent over the Transfer events processed so far (a *)
(* transfer from a tracked address to itself adds nothing), and no other   *)
(* address has a balance; an event that is no Transfer, or a Transfer      *)
(* between untracked addresses, leaves balances and last_update unchanged. *)
(***************************************************************************)
C32_BalanceIsNetOfTransfers ==
    [][EventProcessed =>
          LET p == transfer_event_parser'
              e == p.events[Len(p.events)]
          IN /\ BalancesAgree(p)
             /\ Neutral(p, e) =>
                   /\ p.balances = transfer_event_parser.balances
                   /\ p.last_update = transfer_event_parser.last_update]_vars

\* execute_events has returned from three Transfers: a to b in block 5, x to
\* a in the earlier block 3, a to itself in block 5 again; a's balance at
\* block 5 is -1 and b's is 2.
C32_Witness ==
    /\ transfer_event_parser # None
    /\ transfer_event_parser.pc = "returned"
    /\ Len(transfer_event_parser.events) = 3
    /\ SenderOf(transfer_event_parser.events[1]) = "a"
    /\ ReceiverOf(transfer_event_parser.events[1]) = "b"
    /\ transfer_event_parser.events[1].blockNumber = 5
    /\ SenderOf(transfer_event_parser.events[2]) = "x"
    /\ transfer_event_parser.events[2].blockNumber = 3
    /\ SenderOf(transfer_event_parser.events[3]) = "a"
    /\ ReceiverOf(transfer_event_parser.events[3]) = "a"
    /\ transfer_event_parser.events[3].blockNumber = 5
    /\ transfer_event_parser.last_update["a"] = 5
    /\ transfer_event_parser.balances["a"][5] = -1
    /\ transfer_event_parser.balances["b"][5] = 2
    /\ BalancesAgree(transfer_event_parser)

====
